---- MODULE Spec2Model ----
(***************************************************************************)
(* Model of src/infrastructure/ai/openai_service.py (class OpenAIService). *)
(*                                                                         *)
(* One invocation of one operation is in progress at a time.  An operation *)
(* is split where its code waits for the remote service: a Begin action    *)
(* runs the handler up to the remote request, a Return action draws the    *)
(* remote outcome (a reply, or an exception) and runs the handler to its   *)
(* end.  The remote service is the environment: its replies are drawn from *)
(* the small sets defined below.                                           *)
(*                                                                         *)
(* Encoding of Python values:                                              *)
(*   None             <<>>          (Optional: None / Some(x) == <<x>>)    *)
(*   opaque str       a TLA+ string                                        *)
(*   str processed    a sequence of one-character strings                  *)
(*   per character                                                         *)
(*   list             a sequence                                           *)
(*   dict             a function from key strings (a record)               *)
(*   f"lit{x}"        the pair <<"lit", x>>                                *)
(*   float 0.95       the integer number of hundredths, 95                 *)
(***************************************************************************)
EXTENDS Naturals, Sequences, FiniteSets, TLC

VARIABLES
    pc,            \* "idle" | "awaiting" (a remote call is in flight) | "done"
    op,            \* the operation invoked by the caller
    args,          \* the arguments of the invocation
    calls,         \* the remote requests issued by this invocation, in order
    reply,         \* the outcome of the last remote call that came back
    stt_result,    \* process_voice_for_hashtags: its local stt_result
    topic_result,  \* process_voice_for_hashtags: its local topic_result
    result,        \* what the invocation gave its caller
    ticks          \* other tasks the caller's event loop ran during the call

vars == <<pc, op, args, calls, reply, stt_result, topic_result, result, ticks>>

(***************************************************************************)
(* Bounds of the model.                                                    *)
(***************************************************************************)
MaxTagLen == 2          \* generated language tags have at most this length
MaxTranscriptLen == 2   \* generated transcripts have at most this length
MaxTicks == 1           \* other tasks run by the event loop per invocation

(***************************************************************************)
(* Python values.                                                          *)
(***************************************************************************)
None == <<>>
Some(x) == <<x>>

EmptyDict == <<>>

\* dict.update(u): the keys of u are set, the other keys of d are kept.
Update(d, u) ==
    [k \in DOMAIN d \cup DOMAIN u |-> IF k \in DOMAIN u THEN u[k] ELSE d[k]]

\* dict.get(key, default)
Get(d, key, default) == IF key \in DOMAIN d THEN d[key] ELSE default

\* s[:n]
Prefix(s, n) == IF Len(s) <= n THEN s ELSE SubSeq(s, 1, n)

\* All sequences over alphabet A of length at most n.
RECURSIVE SeqsUpTo(_, _)
SeqsUpTo(A, n) ==
    IF n = 0 THEN {<<>>}
    ELSE LET shorter == SeqsUpTo(A, n - 1)
         IN shorter \cup {Append(s, a) : s \in shorter, a \in A}

\* The outcome of an operation, as its caller sees it.
Returned(v) == [status |-> "returned", value |-> v]
Raised(msg) == [status |-> "raised", value |-> msg]
NoResult == [status |-> "none", value |-> None]

\* datetime.utcnow().isoformat()
Timestamp == "utcnow"

(***************************************************************************)
(* The remote service.  A call either raises (str(e) is the message) or    *)
(* returns a response object.                                              *)
(***************************************************************************)
ErrMsgs == {"", "Connection error."}

RemoteRaises == {[kind |-> "raise", msg |-> m] : m \in ErrMsgs}

\* str(e) of the exceptions the handlers' own statements raise.
IndexErrorMsg == "list index out of range"
ListHasNoUpdateMsg == "'list' object has no attribute 'update'"
ListHasNoGetMsg == "'list' object has no attribute 'get'"
JsonTypeErrorMsg == "the JSON object must be str, bytes or bytearray, not NoneType"

\* Reply texts of the chat endpoints.
TxtPlain == "Okay, matching you now"
TxtMatchJson ==
    "{\"understood_text\": \"I like AI\", \"extracted_topics\": [\"AI\"], \"generated_hashtags\": [\"#AI\"], \"match_intent\": \"talk about AI\"}"
TxtPartialMatchJson == "{\"understood_text\": \"I like AI\"}"
TxtSpoofMatchJson ==
    "{\"understood_text\": \"I like AI\", \"extracted_topics\": [\"AI\"], \"generated_hashtags\": [\"#AI\"], \"match_intent\": \"talk about AI\", \"audio_response\": \"FAKE\", \"text_response\": \"FAKE\", \"audio_transcript\": \"FAKE\"}"
TxtListJson == "[\"AI\"]"
TxtTopicsJson ==
    "{\"main_topics\": [\"AI\", \"Startups\"], \"hashtags\": [\"#AI\", \"#Startups\"], \"category\": \"technology\", \"sentiment\": \"positive\", \"conversation_style\": \"professional\", \"confidence\": 0.9, \"summary\": \"AI startups\"}"
TxtPartialTopicsJson == "{\"main_topics\": [\"AI\"]}"
TxtErrorJson == "{\"error\": \"cannot help with that\"}"

\* json.loads(s) on the reply texts above: ok = FALSE is json.JSONDecodeError.
\* Under the keys audio_response, text_response and audio_transcript, whose
\* fields hold a str or None, a JSON string "x" is the value Some("x").
json_loads(s) ==
    CASE s = TxtMatchJson ->
           [ok |-> TRUE, type |-> "dict",
            value |-> [understood_text |-> "I like AI",
                       extracted_topics |-> <<"AI">>,
                       generated_hashtags |-> <<"#AI">>,
                       match_intent |-> "talk about AI"]]
      [] s = TxtPartialMatchJson ->
           [ok |-> TRUE, type |-> "dict",
            value |-> [understood_text |-> "I like AI"]]
      [] s = TxtSpoofMatchJson ->
           [ok |-> TRUE, type |-> "dict",
            value |-> [understood_text |-> "I like AI",
                       extracted_topics |-> <<"AI">>,
                       generated_hashtags |-> <<"#AI">>,
                       match_intent |-> "talk about AI",
                       audio_response |-> Some("FAKE"),
                       text_response |-> Some("FAKE"),
                       audio_transcript |-> Some("FAKE")]]
      [] s = TxtTopicsJson ->
           [ok |-> TRUE, type |-> "dict",
            value |-> [main_topics |-> <<"AI", "Startups">>,
                       hashtags |-> <<"#AI", "#Startups">>,
                       category |-> "technology",
                       sentiment |-> "positive",
                       conversation_style |-> "professional",
                       confidence |-> 90,
                       summary |-> "AI startups"]]
      [] s = TxtPartialTopicsJson ->
           [ok |-> TRUE, type |-> "dict", value |-> [main_topics |-> <<"AI">>]]
      [] s = TxtErrorJson ->
           [ok |-> TRUE, type |-> "dict", value |-> [error |-> "cannot help with that"]]
      [] s = TxtListJson ->
           [ok |-> TRUE, type |-> "list", value |-> <<"AI">>]
      [] OTHER ->
           [ok |-> FALSE, type |-> "none", value |-> None]

\* message.audio of a multimodal reply
AudioPayloads ==
    {None, Some([data |-> "UklGRiQAAABXQVZF", transcript |-> "Okay, matching you now"])}

\* response.choices of a chat completion whose message texts are in Contents
ChatReplies(Contents) ==
    {[kind |-> "ok", choices |-> <<>>]}
    \cup {[kind |-> "ok", choices |-> <<[content |-> c, audio |-> a]>>] :
             c \in Contents, a \in AudioPayloads}

\* Text-only chat: the message carries no audio.
TextChatReplies(Contents) ==
    {[kind |-> "ok", choices |-> <<>>]}
    \cup {[kind |-> "ok", choices |-> <<[content |-> c, audio |-> None]>>] :
             c \in Contents}

MatchContents ==
    {None, Some(""), Some(TxtPlain), Some(TxtMatchJson), Some(TxtPartialMatchJson),
     Some(TxtSpoofMatchJson), Some(TxtErrorJson), Some(TxtListJson)}

TopicContents ==
    {None, Some(""), Some(TxtPlain), Some(TxtTopicsJson), Some(TxtPartialTopicsJson),
     Some(TxtErrorJson), Some(TxtListJson)}

\* One remote request, as recorded in calls.
Request(endpoint, model, language, offloaded) ==
    [endpoint |-> endpoint, model |-> model, language |-> language,
     offloaded |-> offloaded, status |-> "pending"]

\* The last request of cs, marked with the outcome r of its call.
Settle(cs, r) ==
    [cs EXCEPT ![Len(cs)].status = IF r.kind = "raise" THEN "raised" ELSE "ok"]

(***************************************************************************)
(* process_voice_input_for_matching                                        *)
(***************************************************************************)
\* The except branch.
VoiceMatchFailure(msg) ==
    Returned([understood_text |-> "Sorry, I didn't understand what you said",
              extracted_topics |-> <<"General topic">>,
              generated_hashtags |-> <<"#general">>,
              match_intent |-> "General chat",
              audio_response |-> None,
              text_response |-> <<"Error processing voice input: ", msg>>,
              error |-> msg])

\* The json.JSONDecodeError branch.
VoiceMatchParseFallback(content) ==
    [understood_text |-> content,
     extracted_topics |-> <<"General topic">>,
     generated_hashtags |-> <<"#general">>,
     match_intent |-> "Wants to chat"]

\* The fields the handler adds to result_data.
VoiceMatchAudioFields(message) ==
    [audio_response |-> IF message.audio # None THEN Some(message.audio[1].data) ELSE None,
     text_response |-> message.content,
     audio_transcript |->
         IF message.audio # None THEN Some(message.audio[1].transcript) ELSE None,
     processing_time |-> Timestamp]

\* The handler from the remote outcome r on.
process_voice_input_for_matching(r) ==
    IF r.kind = "raise" THEN VoiceMatchFailure(r.msg)
    ELSE IF r.choices = <<>> THEN VoiceMatchFailure(IndexErrorMsg)
    ELSE LET message == r.choices[1]
             truthy == message.content # None /\ message.content # Some("")
             parsed == json_loads(message.content[1])
         IN  IF ~truthy
             THEN Returned(Update(EmptyDict, VoiceMatchAudioFields(message)))
             ELSE IF ~parsed.ok
             THEN Returned(Update(VoiceMatchParseFallback(message.content[1]),
                                  VoiceMatchAudioFields(message)))
             ELSE IF parsed.type # "dict"
             THEN VoiceMatchFailure(ListHasNoUpdateMsg)
             ELSE Returned(Update(parsed.value, VoiceMatchAudioFields(message)))

(***************************************************************************)
(* Strings processed per character.                                        *)
(***************************************************************************)
UpperCase == <<"A", "B", "C", "D", "E", "F", "G", "H", "I", "J", "K", "L", "M", "N", "O", "P", "Q", "R", "S", "T", "U", "V", "W", "X", "Y", "Z">>
LowerCase == <<"a", "b", "c", "d", "e", "f", "g", "h", "i", "j", "k", "l", "m", "n", "o", "p", "q", "r", "s", "t", "u", "v", "w", "x", "y", "z">>

\* str.lower()
lower(s) ==
    [i \in 1..Len(s) |->
        IF \E j \in 1..Len(UpperCase) : UpperCase[j] = s[i]
        THEN LowerCase[CHOOSE j \in 1..Len(UpperCase) : UpperCase[j] = s[i]]
        ELSE s[i]]

\* sub in s
Contains(s, sub) ==
    \E i \in 1..(Len(s) + 1) :
        /\ i + Len(sub) - 1 <= Len(s)
        /\ SubSeq(s, i, i + Len(sub) - 1) = sub

Whitespace == {" ", "\t", "\n", "\r"}

\* str.strip()
RECURSIVE lstrip(_)
lstrip(s) == IF s # <<>> /\ Head(s) \in Whitespace THEN lstrip(Tail(s)) ELSE s

RECURSIVE rstrip(_)
rstrip(s) ==
    IF s # <<>> /\ s[Len(s)] \in Whitespace THEN rstrip(SubSeq(s, 1, Len(s) - 1)) ELSE s

strip(s) == rstrip(lstrip(s))

\* str.split(sep) for a one-character sep
RECURSIVE split(_, _)
split(s, sep) ==
    IF \A i \in 1..Len(s) : s[i] # sep THEN <<s>>
    ELSE LET i == CHOOSE k \in 1..Len(s) :
                      s[k] = sep /\ \A j \in 1..(k - 1) : s[j] # sep
         IN  <<SubSeq(s, 1, i - 1)>> \o split(SubSeq(s, i + 1, Len(s)), sep)

(***************************************************************************)
(* moderate_room_conversation                                              *)
(***************************************************************************)
KwSuggest == <<"s", "u", "g", "g", "e", "s", "t">>
KwTopic == <<"t", "o", "p", "i", "c">>
KwFact == <<"f", "a", "c", "t">>
KwInfo == <<"i", "n", "f", "o">>

\* Mutant of _extract_suggestions: the three tests are an if / elif chain.
_extract_suggestions_exclusive(ai_text) ==
    IF Contains(lower(ai_text), KwSuggest) THEN <<"AI provided a suggestion">>
    ELSE IF Contains(lower(ai_text), KwTopic) THEN <<"New topic recommendation">>
    ELSE IF Contains(lower(ai_text), KwFact) \/ Contains(lower(ai_text), KwInfo)
    THEN <<"Fact checking">>
    ELSE <<>>

\* The tags are the source's texts without their leading emoji.
_extract_suggestions(ai_text) ==
    (IF Contains(lower(ai_text), KwSuggest) THEN <<"AI provided a suggestion">> ELSE <<>>)
    \o (IF Contains(lower(ai_text), KwTopic) THEN <<"New topic recommendation">> ELSE <<>>)
    \o (IF Contains(lower(ai_text), KwFact) \/ Contains(lower(ai_text), KwInfo)
        THEN <<"Fact checking">> ELSE <<>>)

\* Reply texts of the moderator.
TxtHello == <<"h", "e", "l", "l", "o">>
TxtSuggestTopic == <<"I", " ", "s", "u", "g", "g", "e", "s", "t", " ", "a", " ", "n", "e", "w", " ", "t", "o", "p", "i", "c">>
TxtFunFact == <<"F", "u", "n", " ", "F", "A", "C", "T">>

ModerationContents == {None, Some(<<>>), Some(TxtHello), Some(TxtSuggestTopic), Some(TxtFunFact)}

ModerationModes == {"active_host", "fact_checker"}

ParticipantLists == {None, Some(<<"ann", "bob">>)}

\* The except branch.
ModerationFailure(msg) ==
    Returned([ai_response |-> [text |-> <<"AI host encountered an issue: ", msg>>,
                               audio |-> None],
              error |-> msg])

\* The handler from the remote outcome r on.
moderate_room_conversation(r, moderation_mode, room_participants) ==
    IF r.kind = "raise" THEN ModerationFailure(r.msg)
    ELSE IF r.choices = <<>> THEN ModerationFailure(IndexErrorMsg)
    ELSE LET message == r.choices[1]
         IN  Returned(
               [ai_response |->
                   [text |-> message.content,
                    audio |-> IF message.audio # None
                              THEN Some(message.audio[1].data) ELSE None,
                    audio_transcript |-> IF message.audio # None
                                         THEN Some(message.audio[1].transcript) ELSE None],
                moderation_type |-> moderation_mode,
                suggestions |-> _extract_suggestions(
                                   IF message.content # None THEN message.content[1] ELSE <<>>),
                timestamp |-> Timestamp,
                participants |-> room_participants])

(***************************************************************************)
(* health_check and text_to_speech: the speech-synthesis endpoint          *)
(***************************************************************************)
\* response.content of a synthesis call
SpeechReplies == {[kind |-> "ok", content |-> c] : c \in {"", "SUQzBAAAAAAA"}}

health_check(r) ==
    IF r.kind = "raise"
    THEN Returned([status |-> "unhealthy",
                   service |-> "openai_gpt4o_audio",
                   error |-> r.msg,
                   timestamp |-> Timestamp])
    ELSE Returned([status |-> "healthy",
                   service |-> "openai_tts",
                   model |-> "tts-1",
                   timestamp |-> Timestamp])

\* Mutant of text_to_speech: the except branch returns empty audio.
text_to_speech_swallowing(r) ==
    IF r.kind = "raise" THEN Returned("") ELSE Returned(r.content)

\* The except branch logs and re-raises the same exception.
text_to_speech(r) ==
    IF r.kind = "raise" THEN Raised(r.msg) ELSE Returned(r.content)

(***************************************************************************)
(* speech_to_text                                                          *)
(***************************************************************************)
TagEnUS == <<"e", "n", "-", "U", "S">>
TagFr == <<"f", "r">>
TagZhHansCN == <<"z", "h", "-", "H", "a", "n", "s", "-", "C", "N">>

\* The language arguments: the tags above and every short string over a
\* letter and the separator (among them the empty string).
Languages == {TagEnUS, TagFr, TagZhHansCN} \cup SeqsUpTo({"a", "-"}, MaxTagLen)

\* The transcripts the service returns.
Transcripts == SeqsUpTo({" ", "\n", "a"}, MaxTranscriptLen)

DetectedEnglish == <<"e", "n", "g", "l", "i", "s", "h">>

\* The verbose_json response: text, and the attributes language, duration and
\* words, each of which the service may omit (None: the attribute is absent).
STTReplies ==
    {[kind |-> "ok", text |-> t, language |-> l, duration |-> d, words |-> w] :
        t \in Transcripts,
        l \in {None, Some(DetectedEnglish)},
        d \in {None, Some(3)},
        w \in {None, Some(<<[word |-> "a", start |-> 0, end |-> 1]>>)}}

\* Mutant of stt_language_param: the tag is sent as passed.
stt_language_param_unsplit(language) ==
    IF language # <<>> THEN Some(language) ELSE None

\* language.split('-')[0] if language else None
stt_language_param(language) ==
    IF language # <<>> THEN Some(split(language, "-")[1]) ELSE None

\* The handler from the remote outcome r on.
speech_to_text(r, language) ==
    IF r.kind = "raise" THEN Raised(<<"STT processing failed: ", r.msg>>)
    ELSE Returned(
           [text |-> r.text,
            language |-> IF r.language # None THEN r.language[1] ELSE language,
            duration |-> IF r.duration # None THEN r.duration[1] ELSE 0,
            confidence |-> 95,
            words |-> IF r.words # None /\ r.words[1] # <<>>
                      THEN [i \in 1..Len(r.words[1]) |->
                               [word |-> r.words[1][i].word,
                                start |-> r.words[1][i].start,
                                end |-> r.words[1][i].end]]
                      ELSE <<>>])

(***************************************************************************)
(* extract_topics_and_hashtags                                             *)
(***************************************************************************)
\* Mutant of TopicRequestFallback: the error field is left out.
TopicRequestFallback_without_error(msg) ==
    Returned([main_topics |-> <<"general">>,
              hashtags |-> <<"#general", "#chat">>,
              category |-> "other",
              sentiment |-> "neutral",
              conversation_style |-> "casual",
              confidence |-> 10,
              summary |-> "Could not analyze topics"])

\* The outer except branch.
TopicRequestFallback(msg) ==
    Returned([main_topics |-> <<"general">>,
              hashtags |-> <<"#general", "#chat">>,
              category |-> "other",
              sentiment |-> "neutral",
              conversation_style |-> "casual",
              confidence |-> 10,
              summary |-> "Could not analyze topics",
              error |-> msg])

\* Mutant of TopicParseFallback: the raw reply is not kept.
TopicParseFallback_without_raw(content) ==
    Returned([main_topics |-> <<"general", "conversation">>,
              hashtags |-> <<"#chat", "#social", "#conversation">>,
              category |-> "other",
              sentiment |-> "neutral",
              conversation_style |-> "casual",
              confidence |-> 50,
              summary |-> "General conversation topic"])

\* The json.JSONDecodeError branch.
TopicParseFallback(content) ==
    Returned([main_topics |-> <<"general", "conversation">>,
              hashtags |-> <<"#chat", "#social", "#conversation">>,
              category |-> "other",
              sentiment |-> "neutral",
              conversation_style |-> "casual",
              confidence |-> 50,
              summary |-> "General conversation topic",
              raw_response |-> content])

\* The handler from the remote outcome r on.  json.loads(None) raises
\* TypeError and result.get on a list raises AttributeError: neither is a
\* JSONDecodeError, so both reach the outer except.
extract_topics_and_hashtags(r) ==
    IF r.kind = "raise" THEN TopicRequestFallback(r.msg)
    ELSE IF r.choices = <<>> THEN TopicRequestFallback(IndexErrorMsg)
    ELSE LET content == r.choices[1].content
             parsed == json_loads(content[1])
         IN  IF content = None THEN TopicRequestFallback(JsonTypeErrorMsg)
             ELSE IF ~parsed.ok THEN TopicParseFallback(content[1])
             ELSE IF parsed.type # "dict" THEN TopicRequestFallback(ListHasNoGetMsg)
             ELSE Returned(parsed.value)

(***************************************************************************)
(* process_voice_for_hashtags                                              *)
(***************************************************************************)
\* Mutant of NoSpeech: the transcript is tested without strip().
NoSpeech_without_strip(transcription) == transcription = <<>>

\* not transcription.strip()
NoSpeech(transcription) == strip(transcription) = <<>>

NoSpeechResult ==
    Returned([transcription |-> <<>>,
              main_topics |-> <<>>,
              hashtags |-> <<>>,
              error |-> "No speech detected in audio"])

\* The except branch.
HashtagsFailure(msg) ==
    Returned([transcription |-> <<>>,
              main_topics |-> <<>>,
              hashtags |-> <<>>,
              error |-> msg])

\* "Combine results"
CombineResults(stt, topic) ==
    Returned([transcription |-> stt.text,
              language |-> stt.language,
              duration |-> stt.duration,
              confidence |-> stt.confidence,
              main_topics |-> Get(topic, "main_topics", <<>>),
              hashtags |-> Get(topic, "hashtags", <<>>),
              category |-> Get(topic, "category", "other"),
              sentiment |-> Get(topic, "sentiment", "neutral"),
              conversation_style |-> Get(topic, "conversation_style", "casual"),
              summary |-> Get(topic, "summary", Prefix(stt.text, 100))])

(***************************************************************************)
(* The state machine.  Arguments that only shape the prompt or the payload *)
(* of a request (audio bytes, context, voice, speed) influence no outcome  *)
(* and are not part of the state.                                          *)
(***************************************************************************)
Init ==
    /\ pc = "idle"
    /\ op = "none"
    /\ args = EmptyDict
    /\ calls = <<>>
    /\ reply = None
    /\ stt_result = None
    /\ topic_result = None
    /\ result = NoResult
    /\ ticks = 0

\* No invocation is in progress: the caller may start one.
Ready == pc \in {"idle", "done"}

\* The caller invokes operation o with arguments a; the handler runs up to
\* its first remote request req.
Invoke(o, a, req) ==
    /\ pc' = "awaiting"
    /\ op' = o
    /\ args' = a
    /\ calls' = <<req>>
    /\ reply' = None
    /\ stt_result' = None
    /\ topic_result' = None
    /\ result' = NoResult
    /\ ticks' = 0

\* The remote call in flight ends with outcome r and the handler ends with res.
Finish(r, res) ==
    /\ pc' = "done"
    /\ calls' = Settle(calls, r)
    /\ reply' = r
    /\ result' = res
    /\ UNCHANGED <<op, args, ticks>>

\* self.client.chat.completions.create(...) is called directly in the coroutine.
Call_process_voice_input_for_matching ==
    /\ Ready
    /\ Invoke("process_voice_input_for_matching", EmptyDict,
              Request("multimodal_chat", "gpt-4o-audio-preview", None, FALSE))

Return_process_voice_input_for_matching ==
    /\ pc = "awaiting"
    /\ op = "process_voice_input_for_matching"
    /\ \E r \in RemoteRaises \cup ChatReplies(MatchContents) :
           Finish(r, process_voice_input_for_matching(r))
    /\ UNCHANGED <<stt_result, topic_result>>

\* await asyncio.to_thread(self.client.chat.completions.create, ...)
Call_moderate_room_conversation ==
    /\ Ready
    /\ \E mode \in ModerationModes, participants \in ParticipantLists :
           Invoke("moderate_room_conversation",
                  [moderation_mode |-> mode, room_participants |-> participants],
                  Request("multimodal_chat", "gpt-4o-audio-preview", None, TRUE))

Return_moderate_room_conversation ==
    /\ pc = "awaiting"
    /\ op = "moderate_room_conversation"
    /\ \E r \in RemoteRaises \cup ChatReplies(ModerationContents) :
           Finish(r, moderate_room_conversation(r, args.moderation_mode,
                                                args.room_participants))
    /\ UNCHANGED <<stt_result, topic_result>>

\* A plain def: self.client.audio.speech.create(...) runs on the caller's thread.
Call_health_check ==
    /\ Ready
    /\ Invoke("health_check", EmptyDict, Request("speech", "tts-1", None, FALSE))

Return_health_check ==
    /\ pc = "awaiting"
    /\ op = "health_check"
    /\ \E r \in RemoteRaises \cup SpeechReplies : Finish(r, health_check(r))
    /\ UNCHANGED <<stt_result, topic_result>>

\* await asyncio.to_thread(lambda: self.client.audio.speech.create(...))
Call_text_to_speech ==
    /\ Ready
    /\ Invoke("text_to_speech", EmptyDict, Request("speech", "tts-1-hd", None, TRUE))

Return_text_to_speech ==
    /\ pc = "awaiting"
    /\ op = "text_to_speech"
    /\ \E r \in RemoteRaises \cup SpeechReplies : Finish(r, text_to_speech(r))
    /\ UNCHANGED <<stt_result, topic_result>>

\* await asyncio.to_thread(lambda: self.client.audio.transcriptions.create(...))
Call_speech_to_text ==
    /\ Ready
    /\ \E language \in Languages :
           Invoke("speech_to_text", [language |-> language],
                  Request("transcription", "whisper-1", stt_language_param(language), TRUE))

Return_speech_to_text ==
    /\ pc = "awaiting"
    /\ op = "speech_to_text"
    /\ \E r \in RemoteRaises \cup STTReplies : Finish(r, speech_to_text(r, args.language))
    /\ UNCHANGED <<stt_result, topic_result>>

\* await asyncio.to_thread(lambda: self.client.chat.completions.create(...))
Call_extract_topics_and_hashtags ==
    /\ Ready
    /\ Invoke("extract_topics_and_hashtags", EmptyDict,
              Request("text_chat", "gpt-4", None, TRUE))

Return_extract_topics_and_hashtags ==
    /\ pc = "awaiting"
    /\ op = "extract_topics_and_hashtags"
    /\ \E r \in RemoteRaises \cup TextChatReplies(TopicContents) :
           Finish(r, extract_topics_and_hashtags(r))
    /\ UNCHANGED <<stt_result, topic_result>>

\* Step 1: stt_result = await self.speech_to_text(audio_data, language)
Call_process_voice_for_hashtags ==
    /\ Ready
    /\ \E language \in Languages :
           Invoke("process_voice_for_hashtags", [language |-> language],
                  Request("transcription", "whisper-1", stt_language_param(language), TRUE))

\* Mutant of Step1_process_voice_for_hashtags: a failed transcription is
\* tried once more.
Step1_process_voice_for_hashtags_retrying ==
    /\ pc = "awaiting"
    /\ op = "process_voice_for_hashtags"
    /\ calls[Len(calls)].endpoint = "transcription"
    /\ \E r \in RemoteRaises \cup STTReplies :
         LET stt == speech_to_text(r, args.language)
         IN  IF stt.status = "raised" /\ Len(calls) = 1
             THEN /\ calls' = Append(Settle(calls, r),
                                     Request("transcription", "whisper-1",
                                             stt_language_param(args.language), TRUE))
                  /\ reply' = r
                  /\ UNCHANGED <<pc, op, args, stt_result, topic_result, result, ticks>>
             ELSE IF stt.status = "raised"
             THEN /\ Finish(r, HashtagsFailure(stt.value))
                  /\ UNCHANGED <<stt_result, topic_result>>
             ELSE IF NoSpeech(stt.value.text)
             THEN /\ Finish(r, NoSpeechResult)
                  /\ stt_result' = Some(stt.value)
                  /\ UNCHANGED topic_result
             ELSE /\ calls' = Append(Settle(calls, r),
                                     Request("text_chat", "gpt-4", None, TRUE))
                  /\ reply' = r
                  /\ stt_result' = Some(stt.value)
                  /\ UNCHANGED <<pc, op, args, topic_result, result, ticks>>

\* speech_to_text ends: its exception goes to the except branch, a blank
\* transcript returns early, anything else starts Step 2.
Step1_process_voice_for_hashtags ==
    /\ pc = "awaiting"
    /\ op = "process_voice_for_hashtags"
    /\ calls[Len(calls)].endpoint = "transcription"
    /\ \E r \in RemoteRaises \cup STTReplies :
         LET stt == speech_to_text(r, args.language)
         IN  IF stt.status = "raised"
             THEN /\ Finish(r, HashtagsFailure(stt.value))
                  /\ UNCHANGED <<stt_result, topic_result>>
             ELSE IF NoSpeech(stt.value.text)
             THEN /\ Finish(r, NoSpeechResult)
                  /\ stt_result' = Some(stt.value)
                  /\ UNCHANGED topic_result
             ELSE /\ calls' = Append(Settle(calls, r),
                                     Request("text_chat", "gpt-4", None, TRUE))
                  /\ reply' = r
                  /\ stt_result' = Some(stt.value)
                  /\ UNCHANGED <<pc, op, args, topic_result, result, ticks>>

\* Step 2: extract_topics_and_hashtags ends and the results are combined.
Step2_process_voice_for_hashtags ==
    /\ pc = "awaiting"
    /\ op = "process_voice_for_hashtags"
    /\ calls[Len(calls)].endpoint = "text_chat"
    /\ \E r \in RemoteRaises \cup TextChatReplies(TopicContents) :
         LET topic == extract_topics_and_hashtags(r)
         IN  /\ Finish(r, CombineResults(stt_result[1], topic.value))
             /\ topic_result' = Some(topic.value)
    /\ UNCHANGED stt_result

\* While a call runs in a worker thread the event loop runs another task.
EventLoopRunsOtherTask ==
    /\ pc = "awaiting"
    /\ calls[Len(calls)].offloaded
    /\ ticks < MaxTicks
    /\ ticks' = ticks + 1
    /\ UNCHANGED <<pc, op, args, calls, reply, stt_result, topic_result, result>>

Next ==
    \/ Call_process_voice_input_for_matching
    \/ Return_process_voice_input_for_matching
    \/ Call_moderate_room_conversation
    \/ Return_moderate_room_conversation
    \/ Call_health_check
    \/ Return_health_check
    \/ Call_text_to_speech
    \/ Return_text_to_speech
    \/ Call_speech_to_text
    \/ Return_speech_to_text
    \/ Call_extract_topics_and_hashtags
    \/ Return_extract_topics_and_hashtags
    \/ Call_process_voice_for_hashtags
    \/ Step1_process_voice_for_hashtags
    \/ Step2_process_voice_for_hashtags
    \/ EventLoopRunsOtherTask

Spec == Init /\ [][Next]_vars

(***************************************************************************)
(* _extract_suggestions on its own: the helper is applied to a text drawn  *)
(* from the texts below.                                                   *)
(***************************************************************************)
MaxPieces == 2          \* generated texts are made of at most this many pieces

\* Pieces of text: keywords in several cases, halves of keywords, filler.
TextPieces ==
    {<<"s", "u", "g">>,
     <<"g", "e", "s", "t">>,
     <<"S", "u", "g", "g", "e", "s", "t">>,
     <<"t", "o", "p", "i", "c">>,
     <<"T", "O", "P", "I", "C">>,
     <<"F", "a", "c", "t">>,
     <<"i", "n">>,
     <<"f", "o">>,
     <<"I", "N", "F", "O">>,
     <<" ">>,
     <<"h", "e", "l", "l", "o">>}

\* The concatenations of at most n pieces.
RECURSIVE PiecesUpTo(_)
PiecesUpTo(n) ==
    IF n = 0 THEN {<<>>}
    ELSE LET shorter == PiecesUpTo(n - 1)
         IN  shorter \cup {t \o piece : t \in shorter, piece \in TextPieces}

SuggestionTexts == {TxtHello, TxtSuggestTopic, TxtFunFact} \cup PiecesUpTo(MaxPieces)

InitSuggestions ==
    /\ pc = "idle"
    /\ op = "_extract_suggestions"
    /\ args \in {[ai_text |-> t] : t \in SuggestionTexts}
    /\ calls = <<>>
    /\ reply = None
    /\ stt_result = None
    /\ topic_result = None
    /\ result = NoResult
    /\ ticks = 0

\* The helper runs to its end: no remote call, no state of the service.
Apply_extract_suggestions ==
    /\ pc = "idle"
    /\ op = "_extract_suggestions"
    /\ pc' = "done"
    /\ result' = Returned(_extract_suggestions(args.ai_text))
    /\ UNCHANGED <<op, args, calls, reply, stt_result, topic_result, ticks>>

NextSuggestions == Apply_extract_suggestions

SpecSuggestions == InitSuggestions /\ [][NextSuggestions]_vars

(***************************************************************************)
(* Properties.                                                             *)
(***************************************************************************)
SelfSuppressing ==
    {"process_voice_input_for_matching", "moderate_room_conversation",
     "extract_topics_and_hashtags", "health_check"}

Finished(o) == pc = "done" /\ op = o

\* The message of the reply, when the reply has one.
ReplyHasMessage == reply # None /\ reply.kind = "ok" /\ reply.choices # <<>>

\* The declared result shapes (the voice-matching timestamp is the key
\* processing_time).
DeclaredFields(o) ==
    CASE o = "process_voice_input_for_matching" ->
           {"understood_text", "extracted_topics", "generated_hashtags", "match_intent",
            "audio_response", "text_response", "audio_transcript", "processing_time"}
      [] o = "moderate_room_conversation" ->
           {"ai_response", "moderation_type", "suggestions", "timestamp", "participants"}
      [] o = "extract_topics_and_hashtags" ->
           {"main_topics", "hashtags", "category", "sentiment", "conversation_style",
            "confidence", "summary"}
      [] OTHER -> {"status"}

\* C1: every self-suppressing operation returns without raising, whatever the
\* remote call did, and the returned record holds every field of the
\* operation's declared result shape.
C1_FullyPopulatedResult ==
    \A o \in SelfSuppressing :
        Finished(o) =>
            /\ result.status = "returned"
            /\ DeclaredFields(o) \subseteq DOMAIN result.value
            /\ o = "moderate_room_conversation" =>
                   {"text", "audio", "audio_transcript"}
                       \subseteq DOMAIN result.value.ai_response

\* A stage of the pipeline failed: speech_to_text raised, or topic extraction
\* returned a record that carries an error field.
StageFailed ==
    \/ calls[1].status = "raised"
    \/ topic_result # None /\ "error" \in DOMAIN topic_result[1]

\* C2: when either stage of process_voice_for_hashtags fails, the operation
\* does not raise and returns the empty error shape: empty transcription, no
\* topics, no hashtags and an error field.
C2_StageFailureGivesErrorShape ==
    (Finished("process_voice_for_hashtags") /\ StageFailed) =>
        /\ result.status = "returned"
        /\ result.value.transcription = <<>>
        /\ result.value.main_topics = <<>>
        /\ result.value.hashtags = <<>>
        /\ "error" \in DOMAIN result.value

\* Empty, or nothing but whitespace.
Blank(t) == \A i \in 1..Len(t) : t[i] \in Whitespace

\* C3: a blank transcript makes process_voice_for_hashtags return no topics, no
\* hashtags and the "no speech detected" error without ever calling the text
\* chat endpoint; topic extraction is only ever requested after the
\* transcription call returned a transcript that is not blank.
C3_BlankTranscriptShortCircuits ==
    op = "process_voice_for_hashtags" =>
        /\ (pc = "done" /\ stt_result # None /\ Blank(stt_result[1].text)) =>
               /\ result.status = "returned"
               /\ result.value.main_topics = <<>>
               /\ result.value.hashtags = <<>>
               /\ "error" \in DOMAIN result.value
               /\ result.value.error = "No speech detected in audio"
               /\ \A i \in DOMAIN calls : calls[i].endpoint # "text_chat"
        /\ \A i \in DOMAIN calls :
               calls[i].endpoint = "text_chat" =>
                   /\ i > 1
                   /\ calls[i - 1].endpoint = "transcription"
                   /\ calls[i - 1].status = "ok"
                   /\ stt_result # None
                   /\ ~Blank(stt_result[1].text)

\* C3 witness: a transcript of whitespace only ended the operation.
C3_Witness ==
    /\ Finished("process_voice_for_hashtags")
    /\ stt_result # None
    /\ stt_result[1].text # <<>>
    /\ Blank(stt_result[1].text)

\* C4: when the remote call of speech_to_text or text_to_speech fails, the
\* operation raises to its caller and returns nothing.
C4_RemoteFailurePropagates ==
    \A o \in {"speech_to_text", "text_to_speech"} :
        (Finished(o) /\ calls[1].status = "raised") => result.status = "raised"

\* C4 witness: the synthesis call of text_to_speech failed.
C4_Witness ==
    /\ Finished("text_to_speech")
    /\ calls[1].status = "raised"

\* Reply texts that are not JSON, and JSON objects that lack expected fields.
NotJsonTexts == {"", TxtPlain}
PartialJsonTexts == {TxtPartialMatchJson, TxtPartialTopicsJson, TxtErrorJson}

JsonReplyOperations == {"process_voice_input_for_matching", "extract_topics_and_hashtags"}

\* The reply of a JSON-producing operation is text that is not JSON.
MalformedReply ==
    /\ op \in JsonReplyOperations
    /\ ReplyHasMessage
    /\ reply.choices[1].content # None
    /\ reply.choices[1].content[1] \in NotJsonTexts

\* The reply of a JSON-producing operation is a JSON object short of fields.
MissingFieldReply ==
    /\ op \in JsonReplyOperations
    /\ ReplyHasMessage
    /\ reply.choices[1].content # None
    /\ reply.choices[1].content[1] \in PartialJsonTexts

\* C5 as stated: every failure of a self-suppressing operation (the remote
\* call raising, a malformed reply, a missing field) ends in a returned record
\* with an error field holding the failure's description.
C5_EveryFailureCarriesError ==
    \A o \in SelfSuppressing :
        (Finished(o) /\ (reply.kind = "raise" \/ MalformedReply \/ MissingFieldReply)) =>
            /\ result.status = "returned"
            /\ "error" \in DOMAIN result.value
            /\ reply.kind = "raise" => result.value.error = reply.msg

\* C5 as amended: the remote call raising ends in a returned record whose
\* error field is the failure's description; a reply that is not JSON ends in
\* a returned record with no error field, and a JSON object short of fields
\* is returned with no error field added (it has one only if the model's own
\* object has an error key).
C5_RemoteFailureCarriesError ==
    \A o \in SelfSuppressing :
        Finished(o) =>
            /\ result.status = "returned"
            /\ reply.kind = "raise" =>
                   /\ "error" \in DOMAIN result.value
                   /\ result.value.error = reply.msg
            /\ MalformedReply => "error" \notin DOMAIN result.value
            /\ MissingFieldReply =>
                   ("error" \in DOMAIN result.value
                        <=> reply.choices[1].content[1] = TxtErrorJson)

\* C5 witness: the remote call of topic extraction raised.
C5_Witness ==
    /\ Finished("extract_topics_and_hashtags")
    /\ reply.kind = "raise"
    /\ reply.msg # ""

\* C6: a reply to extract_topics_and_hashtags that is not JSON gives the parse
\* fallback (topics general and conversation, category other, sentiment
\* neutral) with the raw reply text under raw_response and no error field; the
\* request-failure fallback carries an error field and no raw_response.
C6_ParseFallbackKeepsRawReply ==
    Finished("extract_topics_and_hashtags") =>
        /\ MalformedReply =>
               /\ result.status = "returned"
               /\ result.value.main_topics = <<"general", "conversation">>
               /\ result.value.category = "other"
               /\ result.value.sentiment = "neutral"
               /\ "raw_response" \in DOMAIN result.value
               /\ result.value.raw_response = reply.choices[1].content[1]
               /\ "error" \notin DOMAIN result.value
        /\ reply.kind = "raise" =>
               /\ result.status = "returned"
               /\ "error" \in DOMAIN result.value
               /\ "raw_response" \notin DOMAIN result.value

\* C6 witness: topic extraction got plain text for a reply.
C6_Witness ==
    /\ Finished("extract_topics_and_hashtags")
    /\ MalformedReply
    /\ reply.choices[1].content[1] = TxtPlain

\* C7: while a remote call is in flight it runs in a worker, so the caller's
\* event loop is free to run other work.
C7_RemoteCallsOffloaded ==
    pc = "awaiting" => calls[Len(calls)].offloaded

\* C8: no endpoint is called twice in one invocation, a failed call is the
\* last call of its invocation and ends it, a plain operation issues one
\* request and process_voice_for_hashtags at most two, transcription first
\* and text chat second.
C8_NoRetry ==
    /\ \A i, j \in DOMAIN calls : i # j => calls[i].endpoint # calls[j].endpoint
    /\ \A i \in DOMAIN calls :
           calls[i].status = "raised" => (i = Len(calls) /\ pc = "done")
    /\ Len(calls) <= (IF op = "process_voice_for_hashtags" THEN 2 ELSE 1)
    /\ Len(calls) = 2 =>
           (calls[1].endpoint = "transcription" /\ calls[2].endpoint = "text_chat")
    /\ pc = "done" => result.status \in {"returned", "raised"}

\* C8 witness: the first stage of the pipeline failed and nothing followed.
C8_Witness ==
    /\ Finished("process_voice_for_hashtags")
    /\ Len(calls) = 1
    /\ calls[1].status = "raised"

\* C9: health_check never raises, reports healthy exactly when the probe
\* succeeds, and on a failed probe reports unhealthy with an error string
\* that is not empty.
C9_HealthStatus ==
    Finished("health_check") =>
        /\ result.status = "returned"
        /\ (result.value.status = "healthy") <=> (reply.kind = "ok")
        /\ reply.kind = "raise" =>
               /\ result.value.status = "unhealthy"
               /\ "error" \in DOMAIN result.value
               /\ result.value.error # ""

\* p is the part of tag before its first "-" (all of tag when it has none).
IsPrimarySubtag(p, tag) ==
    /\ Len(p) <= Len(tag)
    /\ p = SubSeq(tag, 1, Len(p))
    /\ \A i \in 1..Len(p) : p[i] # "-"
    /\ Len(p) = Len(tag) \/ tag[Len(p) + 1] = "-"

\* C10: the language parameter of every transcription request is the primary
\* subtag of the language tag the caller passed (en-US is sent as en, fr as
\* fr), and a response without a detected language makes speech_to_text
\* return the caller's tag as passed.
C10_LanguageNormalization ==
    /\ \A i \in DOMAIN calls :
           (calls[i].endpoint = "transcription" /\ args.language # <<>>) =>
               /\ calls[i].language # None
               /\ IsPrimarySubtag(calls[i].language[1], args.language)
               /\ args.language = TagEnUS => calls[i].language = Some(<<"e", "n">>)
               /\ args.language = TagFr => calls[i].language = Some(TagFr)
    /\ (Finished("speech_to_text") /\ reply.kind = "ok" /\ reply.language = None) =>
           /\ result.status = "returned"
           /\ result.value.language = args.language

\* C10 witness: en-US was passed and the response named no language.
C10_Witness ==
    /\ Finished("speech_to_text")
    /\ args.language = TagEnUS
    /\ calls[1].language = Some(<<"e", "n">>)
    /\ reply.kind = "ok"
    /\ reply.language = None

TagSuggestion == "AI provided a suggestion"
TagTopic == "New topic recommendation"
TagFactCheck == "Fact checking"

\* Letters c and d are the same up to case.
SameLetter(c, d) ==
    \/ c = d
    \/ \E j \in 1..Len(UpperCase) :
           {c, d} = {UpperCase[j], LowerCase[j]}

\* text holds the keyword somewhere, in any mix of cases.
Mentions(text, keyword) ==
    \E i \in 1..Len(text) :
        /\ i + Len(keyword) - 1 <= Len(text)
        /\ \A k \in 1..Len(keyword) : SameLetter(text[i + k - 1], keyword[k])

InResult(tag) == \E i \in DOMAIN result.value : result.value[i] = tag

\* C11: the result of _extract_suggestions holds the suggestion tag exactly
\* when the text mentions "suggest" in any case, the topic tag exactly when
\* it mentions "topic", the fact-checking tag exactly when it mentions "fact"
\* or "info"; the tests do not exclude one another, no tag occurs twice,
\* "I suggest a new topic" gives the suggestion and topic tags and "hello"
\* gives the empty list.
C11_SuggestionTags ==
    Finished("_extract_suggestions") =>
        /\ result.status = "returned"
        /\ InResult(TagSuggestion) <=> Mentions(args.ai_text, KwSuggest)
        /\ InResult(TagTopic) <=> Mentions(args.ai_text, KwTopic)
        /\ InResult(TagFactCheck) <=>
               (Mentions(args.ai_text, KwFact) \/ Mentions(args.ai_text, KwInfo))
        /\ \A i, j \in DOMAIN result.value :
               result.value[i] = result.value[j] => i = j
        /\ \A i \in DOMAIN result.value :
               result.value[i] \in {TagSuggestion, TagTopic, TagFactCheck}
        /\ args.ai_text = TxtSuggestTopic => result.value = <<TagSuggestion, TagTopic>>
        /\ args.ai_text = TxtHello => result.value = <<>>

\* C11 witness: a text naming two keywords got both tags.
C11_Witness ==
    /\ Finished("_extract_suggestions")
    /\ args.ai_text = TxtSuggestTopic
    /\ InResult(TagSuggestion)
    /\ InResult(TagTopic)

\* Reply texts that are well-formed JSON; all but the last are JSON objects.
JsonObjectTexts == {TxtMatchJson, TxtPartialMatchJson, TxtSpoofMatchJson, TxtErrorJson}
WellFormedJsonTexts == JsonObjectTexts \cup {TxtListJson}

\* The reply of voice matching carries text from texts and an audio payload.
MatchReplyWithAudio(texts) ==
    /\ Finished("process_voice_input_for_matching")
    /\ ReplyHasMessage
    /\ reply.choices[1].content # None
    /\ reply.choices[1].content[1] \in texts
    /\ reply.choices[1].audio # None

\* C12: when the reply of process_voice_input_for_matching holds well-formed
\* JSON text and an audio payload, the returned record's audio_response is
\* that payload unchanged, whatever keys the model's JSON has.
C12_AudioPayloadPreserved ==
    MatchReplyWithAudio(WellFormedJsonTexts) =>
        /\ result.status = "returned"
        /\ "audio_response" \in DOMAIN result.value
        /\ result.value.audio_response = Some(reply.choices[1].audio[1].data)

====
